---- MODULE Spec2Model ----
(***************************************************************************)
(* Model of the hr-manager web client: the office-proximity check          *)
(* (src/config/office.ts), the employee attendance page (MarkAttendance),  *)
(* the admin leave-request page (AdminLeaveRequests) and the task pages    *)
(* (AdminTasks, EmployeeTasks), each talking to the hosted backend tables. *)
(***************************************************************************)
EXTENDS Integers, Sequences, FiniteSets, TLC

(***************************************************************************)
(* Fixed-point arithmetic.  The source computes in IEEE doubles; the model *)
(* computes the same expressions, in the same order, on scaled integers:   *)
(*   coordinates  in micro-degrees           (1 = 1e-6 degree)             *)
(*   angles       in AngScale-ths of a radian (1 = 1e-8 rad)               *)
(*   cosines      in TrigScale-ths            (1 = 1e-4)                   *)
(*   distances    in DistScale-ths of a metre (1 = 0.1 m)                  *)
(* IEEE rounding is symmetric in the sign, so every division truncates     *)
(* toward zero (SDiv) and not toward minus infinity.                       *)
(***************************************************************************)
Abs(x) == IF x >= 0 THEN x ELSE -x

SDiv(a, b) == IF a >= 0 THEN a \div b ELSE -((-a) \div b)

\* floor(a * b / c) for a, b >= 0 without leaving 32 bits
MulDiv(a, b, c) == (a \div c) * b + ((a % c) * b) \div c

SMulDiv(a, b, c) == IF a >= 0 THEN MulDiv(a, b, c) ELSE -MulDiv(-a, b, c)

MicroDeg == 1000000
AngScale == 100000000
TrigScale == 10000
DistScale == 10

\* Math.PI, in TrigScale-ths
PiFix == 31416

\* (x * Math.PI) / 180 : micro-degrees to angle units
ToRad(x) == SMulDiv(x, PiFix, 180 * (TrigScale \div (AngScale \div MicroDeg)))

\* Math.sin(x), x in angle units, result in angle units; Taylor series
\* x - x^3/6 (the next term is below the resolution for the angles used)
MathSin(x) == x - SDiv(SDiv(x * x, AngScale) * x, 6 * AngScale)

\* Math.cos(x), x in angle units, result in TrigScale-ths; Taylor series
\* 1 - x^2/2 + x^4/24 - x^6/720
MathCos(x) ==
    LET y  == SDiv(x, AngScale \div TrigScale)
        y2 == (y * y) \div TrigScale
        y4 == (y2 * y2) \div TrigScale
        y6 == (y4 * y2) \div TrigScale
    IN  TrigScale - y2 \div 2 + y4 \div 24 - y6 \div 720

RECURSIVE SqrtSearch(_, _, _)
SqrtSearch(n, lo, hi) ==
    IF lo >= hi THEN lo
    ELSE LET mid == (lo + hi + 1) \div 2
         IN  IF mid * mid <= n THEN SqrtSearch(n, mid, hi)
             ELSE SqrtSearch(n, lo, mid - 1)

\* largest r with r*r <= n
ISqrt(n) == SqrtSearch(n, 0, 46340)

\* Math.atan2(y, x) for y >= 0 in angle units and x > 0 in TrigScale-ths:
\* atan(t) = t - t^3/3 with t = y/x
MathAtan2(y, x) ==
    LET t == (y * TrigScale) \div x
    IN  t - SDiv(SDiv(t * t, AngScale) * t, 3 * AngScale)

\* Math.round of a non-negative distance: DistScale-ths to whole metres
MathRound(d) == (2 * d + DistScale) \div (2 * DistScale)

(***************************************************************************)
(* src/config/office.ts                                                    *)
(***************************************************************************)
OfficeLat == 11603722
OfficeLng == 76209250
allowedRadius == 100
enforceLocationCheck == TRUE

\* the Earth's radius taken in kilometres
EarthRadius_km == 6371000 \div 1000

\* const R = 6371e3, in metres
EarthRadius == 6371000

\* calculateDistance with Math.cos(phi1) used for both latitudes
calculateDistance_cosTwice(lat1, lng1, lat2, lng2) ==
    LET phi1 == ToRad(lat1)
        dphi == ToRad(lat2 - lat1)
        dlam == ToRad(lng2 - lng1)
        s1   == MathSin(SDiv(dphi, 2))
        s2   == MathSin(SDiv(dlam, 2))
        cc   == (MathCos(phi1) * MathCos(phi1)) \div TrigScale
        a    == s1 * s1 + SDiv(cc * s2, TrigScale) * s2
        oneMinusA == TrigScale * TrigScale
                       - a \div ((AngScale \div TrigScale) * (AngScale \div TrigScale))
        c    == 2 * MathAtan2(ISqrt(a), ISqrt(oneMinusA))
    IN  (c * (EarthRadius \div 1000)) \div (AngScale \div (1000 * DistScale))

calculateDistance(lat1, lng1, lat2, lng2) ==
    LET phi1 == ToRad(lat1)
        phi2 == ToRad(lat2)
        dphi == ToRad(lat2 - lat1)
        dlam == ToRad(lng2 - lng1)
        s1   == MathSin(SDiv(dphi, 2))
        s2   == MathSin(SDiv(dlam, 2))
        cc   == (MathCos(phi1) * MathCos(phi2)) \div TrigScale
        \* a is in AngScale^2-ths
        a    == s1 * s1 + SDiv(cc * s2, TrigScale) * s2
        \* 1 - a, in TrigScale^2-ths
        oneMinusA == TrigScale * TrigScale
                       - a \div ((AngScale \div TrigScale) * (AngScale \div TrigScale))
        c    == 2 * MathAtan2(ISqrt(a), ISqrt(oneMinusA))
    IN  \* R * c, in DistScale-ths of a metre
        (c * (EarthRadius \div 1000)) \div (AngScale \div (1000 * DistScale))

\* isWithinOfficeRange with the boundary excluded (distance < allowedRadius)
isWithinOfficeRange_strict(employeeLat, employeeLng) ==
    LET distance == calculateDistance(employeeLat, employeeLng, OfficeLat, OfficeLng)
    IN  [isWithinRange |-> distance < allowedRadius * DistScale,
         distance      |-> MathRound(distance)]

\* isWithinOfficeRange with the comparison inverted
isWithinOfficeRange_inverted(employeeLat, employeeLng) ==
    LET distance == calculateDistance(employeeLat, employeeLng, OfficeLat, OfficeLng)
    IN  [isWithinRange |-> distance >= allowedRadius * DistScale,
         distance      |-> MathRound(distance)]

isWithinOfficeRange(employeeLat, employeeLng) ==
    LET distance == calculateDistance(employeeLat, employeeLng, OfficeLat, OfficeLng)
    IN  [isWithinRange |-> distance <= allowedRadius * DistScale,
         distance      |-> MathRound(distance)]

(***************************************************************************)
(* State.  geo*: a caller of the two pure functions of office.ts; then the *)
(* state of the attendance page, of the leave, task and employees pages,   *)
(* of the admin sign-in and of the admin's attendance page.                 *)
(***************************************************************************)
VARIABLES geoA, geoB, geoDist, geoDistRev, geoRange

geoVars == <<geoA, geoB, geoDist, geoDistRev, geoRange>>

VARIABLES
    profile,            \* the employees row of the signed-in user (AuthContext)
    employee,           \* useAuth().employee as rendered: Null until it arrives
    employeeId, location, locationCheck,
    loading, message,
    showScanner, qrScanned,
    todayAttendance, checkingAttendance,
    geoPending,         \* getCurrentPosition calls not yet answered: the
                        \* `employee` each callback closed over
    lookups,            \* checkTodayAttendance queries in flight (their employeeId)
    qrTimers,           \* setTimeout(handleMarkAttendance("qr"), 500) not yet
                        \* fired: the render state the handler closed over
    markInFlight,       \* attendance writes awaiting the backend's answer
    attendance          \* backend table `attendance`, rows of today: the
                        \* columns the page reads back (id, employee_id,
                        \* check_out_time); the other columns written are
                        \* in the request, markInFlight

attVars == <<profile, employee, employeeId, location,
             locationCheck, loading, message, showScanner, qrScanned, todayAttendance, checkingAttendance, geoPending,
             lookups, qrTimers, markInFlight, attendance>>

VARIABLES
    leave_requests,     \* backend table `leave_requests`: the row of request i
                        \* (status, approved_by, rejection_reason)
    leaveCache,         \* per admin: data of the 'admin-leave-requests' query,
                        \* the status each row shows
    leaveFetching,      \* admins whose query has a (re)fetch under way
    selectedRequest,    \* per admin: the row object stored by setSelectedRequest
    reviewComment,      \* per admin
    leaveDialog,        \* per admin: the dialog that is open, and the row it
                        \* was opened from
    leaveMutations      \* approve / reject / editStatus mutations awaiting
                        \* the backend's answer

leaveVars == <<leave_requests, leaveCache, leaveFetching, selectedRequest,
               reviewComment, leaveDialog, leaveMutations>>

VARIABLES
    tasks,              \* backend table `tasks`: rows (id, status)
    nextTaskId,         \* the id the backend gives the next inserted task
    employeeTasks,      \* data of the 'employee-tasks' query: (id, status)
    adminTasks,         \* data of the 'admin-tasks' query: the ids (the page
                        \* only displays the other columns)
    taskFetching,       \* queries with a (re)fetch under way
    selectedTask,       \* EmployeeTasks: the task of the completion dialog
    completionNotes,    \* EmployeeTasks
    taskMutations       \* create / delete / updateTaskStatus mutations
                        \* awaiting the backend's answer

taskVars == <<tasks, nextTaskId, employeeTasks, adminTasks, taskFetching,
              selectedTask, completionNotes, taskMutations>>

VARIABLES
    employees,          \* backend table `employees`: rows (user_id, employee_id)
    nextUserId,         \* the id supabase.auth gives the next user signed up
    allEmployees,       \* per admin: data of the 'all-employees' query
    employeesFetching,  \* admins whose query has a (re)fetch under way
    employeeMutations   \* add / delete / update mutations awaiting the
                        \* backend's answer

empVars == <<employees, nextUserId, allEmployees, employeesFetching,
             employeeMutations>>

VARIABLES
    route,              \* the path the router shows
    session,            \* the supabase.auth session: Null or its user
    signInAccount,      \* the email and password submitted
    signInStep,         \* the call handleSubmit awaits
    signInLoading, signInError, showPassword,
    employeeData,       \* the row read by the role lookup
    navigateTimer       \* setTimeout(navigate('/'), 100) not yet fired

signInVars == <<route, session, signInAccount, signInStep, signInLoading,
                signInError, showPassword, employeeData, navigateTimer>>

VARIABLES
    attendanceRecords,  \* AdminAttendance: data of the 'admin-attendance' query
    attendanceFetching, \* the query keys with a (re)fetch under way
    editAttendance      \* editAttendanceMutation calls awaiting the backend's
                        \* answer: the edited record

adminAttVars == <<attendanceRecords, attendanceFetching, editAttendance>>

VARIABLES
    currentPage         \* AdminDashboard: the section the admin has open

vars == <<geoVars, attVars, leaveVars, taskVars, empVars, signInVars,
          adminAttVars, currentPage>>

\* what a step of one page leaves alone
otherThanGeo ==
    <<attVars, leaveVars, taskVars, empVars, signInVars, adminAttVars,
      currentPage>>
otherThanAttendance ==
    <<geoVars, leaveVars, taskVars, empVars, signInVars, adminAttVars,
      currentPage>>
otherThanLeave ==
    <<geoVars, attVars, taskVars, empVars, signInVars, adminAttVars,
      currentPage>>
otherThanTasks ==
    <<geoVars, attVars, leaveVars, empVars, signInVars, adminAttVars,
      currentPage>>
otherThanEmployees ==
    <<geoVars, attVars, leaveVars, taskVars, signInVars, adminAttVars,
      currentPage>>
otherThanSignIn ==
    <<geoVars, attVars, leaveVars, taskVars, empVars, adminAttVars,
      currentPage>>
otherThanAdminAttendance ==
    <<geoVars, leaveVars, taskVars, empVars, signInVars,
      profile, employee, employeeId, location, locationCheck, loading, message,
      showScanner, qrScanned, todayAttendance, checkingAttendance, geoPending,
      lookups, qrTimers, markInFlight, currentPage>>

\* JavaScript null / "no value yet"
Null == [null |-> TRUE]

\* Input coordinates: a grid of GridPitch (0.005 degree) around the office,
\* plus offsets that land on and just beyond allowedRadius.
GridSteps == 2
GridPitch == MicroDeg \div 200
GridOffsets == {k * GridPitch : k \in (-GridSteps)..GridSteps}
LatOffsets == GridOffsets \cup {900, 901, -900}
LngOffsets == GridOffsets \cup {920}
Points == {[lat |-> OfficeLat + dl, lng |-> OfficeLng + dg] :
              dl \in LatOffsets, dg \in LngOffsets}
OfficePoint == [lat |-> OfficeLat, lng |-> OfficeLng]

GeoInit ==
    /\ geoA \in Points
    /\ geoB \in Points
    /\ geoDist = Null
    /\ geoDistRev = Null
    /\ geoRange = Null

\* calculateDistance(A.lat, A.lng, B.lat, B.lng)
CallCalculateDistance ==
    /\ UNCHANGED otherThanGeo
    /\ geoDist = Null
    /\ geoDist' = [value |-> calculateDistance(geoA.lat, geoA.lng, geoB.lat, geoB.lng)]
    /\ UNCHANGED <<geoA, geoB, geoDistRev, geoRange>>

\* calculateDistance(B.lat, B.lng, A.lat, A.lng)
CallCalculateDistanceRev ==
    /\ UNCHANGED otherThanGeo
    /\ geoDistRev = Null
    /\ geoDistRev' = [value |-> calculateDistance(geoB.lat, geoB.lng, geoA.lat, geoA.lng)]
    /\ UNCHANGED <<geoA, geoB, geoDist, geoRange>>

\* isWithinOfficeRange(A.lat, A.lng)
CallIsWithinOfficeRange ==
    /\ UNCHANGED otherThanGeo
    /\ geoRange = Null
    /\ geoRange' = isWithinOfficeRange(geoA.lat, geoA.lng)
    /\ UNCHANGED <<geoA, geoB, geoDist, geoDistRev>>

GeoNext ==
    \/ CallCalculateDistance
    \/ CallCalculateDistanceRev
    \/ CallIsWithinOfficeRange

\* no caller of the pure functions is running
GeoIdle ==
    /\ geoA = OfficePoint
    /\ geoB = OfficePoint
    /\ geoDist = Null
    /\ geoDistRev = Null
    /\ geoRange = Null

(***************************************************************************)
(* Claims about the proximity check (checked under SpecGeo).               *)
(***************************************************************************)

\* C4: isWithinOfficeRange classifies a point whose computed distance to the
\* office is exactly allowedRadius as within range, and every point with a
\* strictly greater computed distance as not within range.
C4_BoundaryInclusive ==
    geoRange # Null =>
        LET d == calculateDistance(geoA.lat, geoA.lng, OfficeLat, OfficeLng)
        IN  /\ (d = allowedRadius * DistScale => geoRange.isWithinRange)
            /\ (d > allowedRadius * DistScale => ~geoRange.isWithinRange)

\* a point exactly allowedRadius away has been classified
C4_Witness ==
    /\ geoRange # Null
    /\ calculateDistance(geoA.lat, geoA.lng, OfficeLat, OfficeLng)
          = allowedRadius * DistScale
    /\ geoRange.isWithinRange

\* C5: calculateDistance(P, P) = 0 for any P, and isWithinOfficeRange at the
\* office's own coordinates returns distance 0 and isWithinRange = TRUE.
C5_Coincident ==
    /\ (geoDist # Null /\ geoA = geoB) => geoDist.value = 0
    /\ (geoRange # Null /\ geoA = OfficePoint) =>
            geoRange = [isWithinRange |-> TRUE, distance |-> 0]

C5_Witness ==
    /\ geoA = OfficePoint
    /\ geoB = OfficePoint
    /\ geoDist = [value |-> 0]
    /\ geoRange # Null

\* C6: calculateDistance is symmetric: the distance from A to B equals the
\* distance from B to A.
C6_Symmetric ==
    (geoDist # Null /\ geoDistRev # Null) => geoDist.value = geoDistRev.value

\* both directions computed for two points that differ in latitude and longitude
C6_Witness ==
    /\ geoDist # Null
    /\ geoDistRev # Null
    /\ geoA.lat # geoB.lat
    /\ geoA.lng # geoB.lng
    /\ geoDist.value > 0

\* C7: with the configured office and allowedRadius 100 m, a point 0.01 degree
\* of latitude north of the office (about 1,112 m) is not within range.
C7_NorthPoint == [lat |-> OfficeLat + MicroDeg \div 100, lng |-> OfficeLng]

C7_FarNorthOutOfRange ==
    (geoRange # Null /\ geoA = C7_NorthPoint) =>
        /\ ~geoRange.isWithinRange
        /\ geoRange.distance \in 1100..1120

C7_Witness ==
    /\ geoA = C7_NorthPoint
    /\ geoRange # Null
    /\ ~geoRange.isWithinRange

\* C26: the result of isWithinOfficeRange is self-consistent: isWithinRange
\* is true exactly when the returned, rounded distance is at most
\* allowedRadius, so no employee is told to be within N metres by a message
\* that reports a distance of N metres or less.
C26_SelfConsistent ==
    geoRange # Null =>
        (geoRange.isWithinRange <=> geoRange.distance <= allowedRadius)

(***************************************************************************)
(* MarkAttendance (src/components/admin/AdminAttendance.tsx, 517-1096).    *)
(* Strings are sequences of tokens, " " being white space, so that         *)
(* String.prototype.trim is a computation.                                 *)
(***************************************************************************)
RECURSIVE TrimLeft(_)
TrimLeft(str) ==
    IF str # <<>> /\ Head(str) = " " THEN TrimLeft(Tail(str)) ELSE str

RECURSIVE TrimRight(_)
TrimRight(str) ==
    IF str # <<>> /\ str[Len(str)] = " "
    THEN TrimRight(SubSeq(str, 1, Len(str) - 1)) ELSE str

\* String.prototype.trim
Trim(str) == TrimRight(TrimLeft(str))

OwnId == <<"EMP001">>
OtherId == <<"EMP002">>

\* what is typed into the manual field and what is decoded from a QR code
TypedIds == {OwnId, OtherId}
ScannedIds == {OwnId}

Profiles == {[employee_id |-> OwnId, location |-> l] :
                l \in {"in-office", "remote", "field"}}

\* positions the device can report: at the office and just beyond the radius
OutsidePoint == [lat |-> OfficeLat + 901, lng |-> OfficeLng]
DevicePositions == {OfficePoint, OutsidePoint}

MaxRows == 2
MaxInFlight == 1
MaxTimers == 1

ErrorMessage(text) == [type |-> "error", text |-> text]
SuccessMessage(text) == [type |-> "success", text |-> text]

MsgIdNotFound == ErrorMessage(<<"Employee ID not found">>)
MsgOwnIdOnly ==
    ErrorMessage(<<"You can only mark attendance for your own Employee ID">>)
MsgNoLocation ==
    ErrorMessage(<<"Location not available. Please enable location services.">>)
MsgTooFar(distance) ==
    ErrorMessage(<<"You must be within ", allowedRadius,
                   "m of the office to mark attendance. You are ",
                   distance, "m away.">>)
MsgAlreadyOut == ErrorMessage(<<"You have already checked out for today">>)
MsgFailed_alreadyOut == MsgAlreadyOut
MsgFailed == ErrorMessage(<<"Failed to mark attendance. Please try again.">>)
MsgCheckedOut == SuccessMessage(<<"Check-out marked successfully!">>)
MsgCheckedIn == SuccessMessage(<<"Check-in marked successfully!">>)

\* employee?.location === 'in-office' && OFFICE_CONFIG.enforceLocationCheck
MustBeInRange(emp) ==
    /\ emp # Null
    /\ emp.location = "in-office"
    /\ enforceLocationCheck

\* the verdict computed for every employee, whatever the location flag
RangeVerdict_everyone(emp, pos) == isWithinOfficeRange(pos.lat, pos.lng)

\* the verdict the geolocation success callback stores (lines 616-623)
RangeVerdict(emp, pos) ==
    IF MustBeInRange(emp)
    THEN isWithinOfficeRange(pos.lat, pos.lng)
    ELSE [isWithinRange |-> TRUE, distance |-> 0]

\* the state that handleMarkAttendance, created in the current render,
\* closes over, with the ID it will use: employeeId for "qr",
\* manualEmployeeId for "manual" (line 643)
CurrentRender(idToUse) ==
    [idToUse |-> idToUse, employee |-> employee, location |-> location,
     locationCheck |-> locationCheck, todayAttendance |-> todayAttendance]

\* state after the first render and its effects
AttInit ==
    /\ profile \in Profiles
    /\ employee \in {Null, profile}
    /\ employeeId = (IF employee = Null THEN <<>> ELSE employee.employee_id)
    /\ location = Null
    /\ locationCheck = Null
    /\ loading = FALSE
    /\ message = Null
    /\ showScanner = FALSE
    /\ qrScanned = FALSE
    /\ todayAttendance = Null
    /\ checkingAttendance = TRUE
    /\ geoPending = {employee}
    /\ lookups = (IF employeeId = <<>> THEN {} ELSE {employeeId})
    /\ qrTimers = {}
    /\ markInFlight = {}
    /\ attendance \in {{}} \cup
           {{[id |-> 1, employee_id |-> OwnId, check_out_time |-> out]} :
                out \in BOOLEAN}

\* AuthContext delivers the employees row: the [employee] effects run
\* (setEmployeeId, a new checkTodayAttendance, a new getCurrentPosition)
EmployeeArrives ==
    /\ UNCHANGED otherThanAttendance
    /\ employee = Null
    /\ employee' = profile
    /\ employeeId' = profile.employee_id
    /\ IF employeeId' # employeeId
       THEN /\ lookups' = lookups \cup {employeeId'}
            /\ checkingAttendance' = TRUE
       ELSE UNCHANGED <<lookups, checkingAttendance>>
    /\ geoPending' = geoPending \cup {profile}
    /\ UNCHANGED <<profile, location, locationCheck, loading,
                   message, showScanner, qrScanned,
                   todayAttendance, qrTimers, markInFlight, attendance>>

\* getCurrentPosition success callback (lines 609-624)
GeolocationSuccess(closedEmployee, position) ==
    /\ UNCHANGED otherThanAttendance
    /\ closedEmployee \in geoPending
    /\ geoPending' = geoPending \ {closedEmployee}
    /\ location' = position
    /\ locationCheck' = RangeVerdict(closedEmployee, position)
    /\ UNCHANGED <<profile, employee, employeeId, loading,
                   message, showScanner, qrScanned,
                   todayAttendance, checkingAttendance, lookups, qrTimers,
                   markInFlight, attendance>>

\* getCurrentPosition error callback (lines 625-632): only a toast
GeolocationError(closedEmployee) ==
    /\ UNCHANGED otherThanAttendance
    /\ closedEmployee \in geoPending
    /\ geoPending' = geoPending \ {closedEmployee}
    /\ UNCHANGED <<profile, employee, employeeId, location,
                   locationCheck, loading, message, showScanner,
                   qrScanned, todayAttendance,
                   checkingAttendance, lookups, qrTimers, markInFlight,
                   attendance>>

\* .eq('employee_id', id).eq('date', today).single(): the row if exactly one
\* matches, otherwise data = null
SingleRow(id) ==
    LET rows == {r \in attendance : r.employee_id = id}
    IN  IF Cardinality(rows) = 1 THEN CHOOSE r \in rows : TRUE ELSE Null

\* checkTodayAttendance gets its answer (lines 569-585)
CheckTodayAttendanceAnswer(id) ==
    /\ UNCHANGED otherThanAttendance
    /\ id \in lookups
    /\ lookups' = lookups \ {id}
    /\ todayAttendance' = SingleRow(id)
    /\ checkingAttendance' = FALSE
    /\ UNCHANGED <<profile, employee, employeeId, location,
                   locationCheck, loading, message, showScanner,
                   qrScanned, geoPending, qrTimers,
                   markInFlight, attendance>>

\* the query fails: data is null, the error is only logged (lines 576-580)
CheckTodayAttendanceError(id) ==
    /\ UNCHANGED otherThanAttendance
    /\ id \in lookups
    /\ lookups' = lookups \ {id}
    /\ todayAttendance' = Null
    /\ checkingAttendance' = FALSE
    /\ UNCHANGED <<profile, employee, employeeId, location,
                   locationCheck, loading, message, showScanner,
                   qrScanned, geoPending, qrTimers,
                   markInFlight, attendance>>

CheckedOut(ta) == ta # Null /\ ta.check_out_time

\* "Scan QR Code" / "Close QR Scanner" button (lines 938-946)
ToggleScanner ==
    /\ UNCHANGED otherThanAttendance
    /\ ~CheckedOut(todayAttendance)
    /\ showScanner' = ~showScanner
    /\ UNCHANGED <<profile, employee, employeeId, location,
                   locationCheck, loading, message, qrScanned,
                   todayAttendance, checkingAttendance, geoPending, lookups,
                   qrTimers, markInFlight, attendance>>

\* if (!location) (line 667), with no check at all
LocationMissing_unchecked(view) == FALSE

\* if (!location) (line 667)
LocationMissing(view) == view.location = Null

\* handleMarkAttendance up to its await (lines 642-746), run by a handler
\* that closed over the render state `view`
handleMarkAttendance(view, method) ==
    LET idToUse == view.idToUse
        ta == view.todayAttendance
        \* the insert (lines 734-746) or update (lines 704-711) request
        issue(kind) ==
            [kind |-> kind, method |-> method, employee_id |-> idToUse,
             location |-> view.location, todayAttendance |-> ta,
             employee |-> view.employee]
    IN
    IF Trim(idToUse) = <<>> THEN
        /\ message' = MsgIdNotFound
        /\ UNCHANGED <<loading, markInFlight>>
    ELSE IF view.employee # Null /\ Trim(idToUse) # view.employee.employee_id THEN
        /\ message' = MsgOwnIdOnly
        /\ UNCHANGED <<loading, markInFlight>>
    ELSE IF LocationMissing(view) THEN
        /\ message' = MsgNoLocation
        /\ UNCHANGED <<loading, markInFlight>>
    ELSE IF /\ MustBeInRange(view.employee)
            /\ (view.locationCheck = Null \/ ~view.locationCheck.isWithinRange) THEN
        /\ message' = MsgTooFar(IF view.locationCheck = Null THEN 0
                                ELSE view.locationCheck.distance)
        /\ UNCHANGED <<loading, markInFlight>>
    ELSE IF ta # Null /\ ta.check_out_time THEN
        /\ message' = MsgAlreadyOut
        /\ loading' = FALSE
        /\ UNCHANGED <<markInFlight>>
    ELSE
        /\ Cardinality(markInFlight) < MaxInFlight
        /\ loading' = TRUE
        /\ message' = Null
        /\ markInFlight' = markInFlight
                \cup {issue(IF ta # Null THEN "update" ELSE "insert")}

\* the manual button is enabled (lines 1042-1049) once the manual entry
\* panel is open (it opens while not checked out, lines 981-988) and
\* manualEmployeeId holds the typed text (lines 1000-1006)
ManualButtonEnabled(manualEmployeeId) ==
    /\ ~CheckedOut(todayAttendance)
    /\ ~loading
    /\ Trim(manualEmployeeId) # <<>>
    /\ location # Null
    /\ ~checkingAttendance
    /\ ~(/\ MustBeInRange(employee)
         /\ locationCheck # Null
         /\ ~locationCheck.isWithinRange)

\* the user types manualEmployeeId into the manual entry panel and clicks
\* the button: onClick={() => handleMarkAttendance("manual")} (line 1041).
\* The panel flag and the typed text are read by nothing else, so typing and
\* clicking are one step.
ClickMarkAttendance(manualEmployeeId) ==
    /\ UNCHANGED otherThanAttendance
    /\ ManualButtonEnabled(manualEmployeeId)
    /\ handleMarkAttendance(CurrentRender(manualEmployeeId), "manual")
    /\ UNCHANGED <<profile, employee, employeeId, location,
                   locationCheck, showScanner, qrScanned,
                   todayAttendance, checkingAttendance, geoPending, lookups,
                   qrTimers, attendance>>

\* handleQRScan (lines 774-801)
handleQRScan(scannedData) ==
    /\ UNCHANGED otherThanAttendance
    /\ showScanner
    /\ showScanner' = FALSE
    /\ IF employee # Null /\ Trim(scannedData) # employee.employee_id
       THEN UNCHANGED <<employeeId, qrScanned, qrTimers, lookups,
                        checkingAttendance>>
       ELSE /\ Cardinality(qrTimers) < MaxTimers
            /\ employeeId' = scannedData
            /\ qrScanned' = TRUE
            /\ qrTimers' = qrTimers \cup {CurrentRender(employeeId)}
            /\ IF scannedData # employeeId
               THEN /\ lookups' = lookups \cup {scannedData}
                    /\ checkingAttendance' = TRUE
               ELSE UNCHANGED <<lookups, checkingAttendance>>
    /\ UNCHANGED <<profile, employee, location,
                   locationCheck, loading, message, todayAttendance, geoPending, markInFlight, attendance>>

\* the 500 ms timer of handleQRScan fires (lines 798-800)
QrTimerFires(view) ==
    /\ UNCHANGED otherThanAttendance
    /\ view \in qrTimers
    /\ qrTimers' = qrTimers \ {view}
    /\ handleMarkAttendance(view, "qr")
    /\ UNCHANGED <<profile, employee, employeeId, location,
                   locationCheck, showScanner, qrScanned,
                   todayAttendance, checkingAttendance, geoPending, lookups,
                   attendance>>

NewRowId == 1 + Cardinality(attendance)

\* the awaited insert or update succeeds (lines 704-759, 769-771)
MarkAttendanceSucceeds(w) ==
    /\ UNCHANGED otherThanAttendance
    /\ w \in markInFlight
    /\ markInFlight' = markInFlight \ {w}
    /\ IF w.kind = "update"
       THEN /\ attendance' =
                 {IF r.id = w.todayAttendance.id
                  THEN [r EXCEPT !.check_out_time = TRUE]
                  ELSE r : r \in attendance}
            /\ message' = MsgCheckedOut
            /\ todayAttendance' =
                 [w.todayAttendance EXCEPT !.check_out_time = TRUE]
       ELSE /\ Cardinality(attendance) < MaxRows
            /\ LET data == [id |-> NewRowId, employee_id |-> w.employee_id,
                            check_out_time |-> FALSE]
               IN  /\ attendance' = attendance \cup {data}
                   /\ todayAttendance' = data
            /\ message' = MsgCheckedIn
    /\ qrScanned' = FALSE
    /\ loading' = FALSE
    /\ UNCHANGED <<profile, employee, employeeId, location,
                   locationCheck, showScanner, checkingAttendance, geoPending, lookups, qrTimers>>

\* the awaited insert or update fails (lines 713, 748, 761-771)
MarkAttendanceFails(w) ==
    /\ UNCHANGED otherThanAttendance
    /\ w \in markInFlight
    /\ markInFlight' = markInFlight \ {w}
    /\ message' = MsgFailed
    /\ loading' = FALSE
    /\ UNCHANGED <<profile, employee, employeeId, location,
                   locationCheck, showScanner, qrScanned,
                   todayAttendance, checkingAttendance, geoPending, lookups,
                   qrTimers, attendance>>

AttNextFor(typedIds, scannedIds) ==
    \/ EmployeeArrives
    \/ \E e \in geoPending, pos \in DevicePositions : GeolocationSuccess(e, pos)
    \/ \E e \in geoPending : GeolocationError(e)
    \/ \E id \in lookups : CheckTodayAttendanceAnswer(id)
    \/ \E id \in lookups : CheckTodayAttendanceError(id)
    \/ ToggleScanner
    \/ \E text \in typedIds : ClickMarkAttendance(text)
    \/ \E data \in scannedIds : handleQRScan(data)
    \/ \E view \in qrTimers : QrTimerFires(view)
    \/ \E w \in markInFlight : MarkAttendanceSucceeds(w)
    \/ \E w \in markInFlight : MarkAttendanceFails(w)

AttNext == AttNextFor(TypedIds, ScannedIds)

\* the attendance page is not mounted
AttPageIdle ==
    /\ profile = Null
    /\ employee = Null
    /\ employeeId = <<>>
    /\ location = Null
    /\ locationCheck = Null
    /\ loading = FALSE
    /\ message = Null
    /\ showScanner = FALSE
    /\ qrScanned = FALSE
    /\ todayAttendance = Null
    /\ checkingAttendance = TRUE
    /\ geoPending = {}
    /\ lookups = {}
    /\ qrTimers = {}
    /\ markInFlight = {}

\* ... and no row of today in the table
AttIdle == AttPageIdle /\ attendance = {}

(***************************************************************************)
(* Leave requests: the employee's form (handleSubmitLeave, ViewReport.tsx) *)
(* and AdminLeaveRequests (src/components/admin/AdminLeaveRequests.tsx).   *)
(* A nullable column holds Null or a one-field record, so that a value and *)
(* null are always comparable.                                             *)
(***************************************************************************)
Admins == {"ADM001", "ADM002"}

MaxRequests == 1

\* what an admin types into a comment box: nothing, white space, a text
TypedComments == {<<>>, <<" ">>, <<"noted">>}

QuickApproveComment == <<"Leave request approved.">>
DefaultApprovedComment == <<"Status changed to approved">>
DefaultPendingComment == <<"Status reset to pending">>

LeaveStatuses == {"pending", "approved", "rejected"}

\* a text column and an employee_id column holding a value
Text(str) == [text |-> str]
By(admin) == [employee_id |-> admin]

\* new Date().toISOString(): the timestamp column holding a value
NowISO == [iso |-> "now"]

\* JavaScript `comment || null` on a string: '' is falsy
OrNull(str) == IF str = <<>> THEN Null ELSE Text(str)

\* JavaScript `reviewComment || fallback`
OrElse(str, fallback) == IF str = <<>> THEN fallback ELSE str

LeaveInit ==
    /\ leave_requests = <<>>
    /\ leaveCache = [a \in Admins |-> <<>>]
    /\ leaveFetching = Admins
    /\ selectedRequest = [a \in Admins |-> Null]
    /\ reviewComment = [a \in Admins |-> <<>>]
    /\ leaveDialog = [a \in Admins |-> Null]
    /\ leaveMutations = {}

\* ViewReport.tsx handleSubmitLeave, while fewer than `limit` requests exist
SubmitLeaveUpTo(limit) ==
    /\ UNCHANGED otherThanLeave
    /\ Len(leave_requests) < limit
    /\ leave_requests' = Append(leave_requests,
            [status |-> "pending", approved_by |-> Null, approved_at |-> Null,
             rejection_reason |-> Null])
    /\ UNCHANGED <<leaveCache, leaveFetching, selectedRequest, reviewComment,
                   leaveDialog, leaveMutations>>

\* ViewReport.tsx handleSubmitLeave: insert with status 'pending'
handleSubmitLeave == SubmitLeaveUpTo(MaxRequests)

\* refetchInterval: 30000 starts a refetch
LeaveRefetchInterval(a) ==
    /\ UNCHANGED otherThanLeave
    /\ a \notin leaveFetching
    /\ leaveFetching' = leaveFetching \cup {a}
    /\ UNCHANGED <<leave_requests, leaveCache, selectedRequest, reviewComment,
                   leaveDialog, leaveMutations>>

\* the row of `leaveRequests` with this id, as rendered from a cache
Shown(cache, id) == IF id \in DOMAIN cache THEN cache[id] ELSE "none"

\* The reject dialog is rendered inside {request.status === "pending" && ...}
\* and the edit dialog inside {(approved || rejected) && ...}: a dialog whose
\* row no longer satisfies the condition is unmounted.  The details dialog is
\* rendered for every row.
StillMounted(dialog, cache) ==
    \/ dialog = Null
    \/ dialog # Null /\ dialog.kind = "details"
    \/ dialog # Null /\ dialog.kind = "reject" /\ Shown(cache, dialog.id) = "pending"
    \/ dialog # Null /\ dialog.kind = "edit"
          /\ Shown(cache, dialog.id) \in {"approved", "rejected"}

\* queryFn answers: select * from leave_requests
LeaveQueryAnswer(a) ==
    /\ UNCHANGED otherThanLeave
    /\ a \in leaveFetching
    /\ leaveFetching' = leaveFetching \ {a}
    /\ LET data == [i \in DOMAIN leave_requests |-> leave_requests[i].status]
       IN  /\ leaveCache' = [leaveCache EXCEPT ![a] = data]
           /\ leaveDialog' = [leaveDialog EXCEPT ![a] =
                  IF StillMounted(leaveDialog[a], data) THEN leaveDialog[a] ELSE Null]
    /\ UNCHANGED <<leave_requests, selectedRequest, reviewComment, leaveMutations>>

\* queryFn throws: the query keeps its data
LeaveQueryError(a) ==
    /\ UNCHANGED otherThanLeave
    /\ a \in leaveFetching
    /\ leaveFetching' = leaveFetching \ {a}
    /\ UNCHANGED <<leave_requests, leaveCache, selectedRequest, reviewComment,
                   leaveDialog, leaveMutations>>

IsPending(a, kind) == \E m \in leaveMutations : m.admin = a /\ m.kind = kind

\* approveMutation.isPending || rejectMutation.isPending
ReviewPending(a) == IsPending(a, "approve") \/ IsPending(a, "reject")

\* approveMutation.mutate / rejectMutation.mutate / editStatusMutation.mutate
Mutate(a, kind, requestId, newStatus, comment) ==
    leaveMutations' = leaveMutations \cup
        {[admin |-> a, kind |-> kind, requestId |-> requestId,
          newStatus |-> newStatus, comment |-> comment]}

\* handleApproveRequest as rendered with this reviewComment
handleApproveRequest(a, requestId, comment) ==
    Mutate(a, "approve", requestId, "approved", comment)

\* handleRejectRequest: a blank comment only raises a toast
handleRejectRequest(a, requestId) ==
    IF Trim(reviewComment[a]) = <<>>
    THEN UNCHANGED leaveMutations
    ELSE Mutate(a, "reject", requestId, "rejected", reviewComment[a])

\* a dialog trigger of the row: onClick={() => setSelectedRequest(request)}
OpenDialog(a, kind, id) ==
    /\ leaveDialog[a] = Null
    /\ leaveDialog' = [leaveDialog EXCEPT ![a] = [kind |-> kind, id |-> id]]
    /\ selectedRequest' = [selectedRequest EXCEPT ![a] =
                               [id |-> id, status |-> leaveCache[a][id]]]

\* the eye button (lines 415-420)
OpenDetails(a, id) ==
    /\ UNCHANGED otherThanLeave
    /\ id \in DOMAIN leaveCache[a]
    /\ OpenDialog(a, "details", id)
    /\ UNCHANGED <<leave_requests, leaveCache, leaveFetching, reviewComment,
                   leaveMutations>>

\* the X button of a row shown pending (lines 534-546)
OpenRejectDialog(a, id) ==
    /\ UNCHANGED otherThanLeave
    /\ Shown(leaveCache[a], id) = "pending"
    /\ ~ReviewPending(a)
    /\ OpenDialog(a, "reject", id)
    /\ UNCHANGED <<leave_requests, leaveCache, leaveFetching, reviewComment,
                   leaveMutations>>

\* the edit button of a row shown approved or rejected (lines 578-590)
OpenEditDialog(a, id) ==
    /\ UNCHANGED otherThanLeave
    /\ Shown(leaveCache[a], id) \in {"approved", "rejected"}
    /\ OpenDialog(a, "edit", id)
    /\ UNCHANGED <<leave_requests, leaveCache, leaveFetching, reviewComment,
                   leaveMutations>>

\* Escape, the close button or a click outside
CloseDialog(a) ==
    /\ UNCHANGED otherThanLeave
    /\ leaveDialog[a] # Null
    /\ leaveDialog' = [leaveDialog EXCEPT ![a] = Null]
    /\ UNCHANGED <<leave_requests, leaveCache, leaveFetching, selectedRequest,
                   reviewComment, leaveMutations>>

\* the review block of the details dialog is rendered (lines 429, 471)
DetailsReview(a) ==
    /\ leaveDialog[a] # Null
    /\ leaveDialog[a].kind = "details"
    /\ selectedRequest[a] # Null
    /\ selectedRequest[a].id = leaveDialog[a].id
    /\ selectedRequest[a].status = "pending"

\* a Textarea bound to reviewComment is on screen
CommentBoxShown(a) ==
    \/ DetailsReview(a)
    \/ leaveDialog[a] # Null /\ leaveDialog[a].kind \in {"reject", "edit"}

\* onChange={(e) => setReviewComment(e.target.value)}
setReviewComment(a, text) ==
    /\ UNCHANGED otherThanLeave
    /\ CommentBoxShown(a)
    /\ reviewComment[a] # text
    /\ reviewComment' = [reviewComment EXCEPT ![a] = text]
    /\ UNCHANGED <<leave_requests, leaveCache, leaveFetching, selectedRequest,
                   leaveDialog, leaveMutations>>

\* Approve of the details dialog (lines 485-492)
DetailsApprove(a) ==
    /\ UNCHANGED otherThanLeave
    /\ DetailsReview(a)
    /\ ~ReviewPending(a)
    /\ handleApproveRequest(a, selectedRequest[a].id, reviewComment[a])
    /\ UNCHANGED <<leave_requests, leaveCache, leaveFetching, selectedRequest,
                   reviewComment, leaveDialog>>

\* Reject of the details dialog (lines 493-500)
DetailsReject(a) ==
    /\ UNCHANGED otherThanLeave
    /\ DetailsReview(a)
    /\ ~ReviewPending(a)
    /\ handleRejectRequest(a, selectedRequest[a].id)
    /\ UNCHANGED <<leave_requests, leaveCache, leaveFetching, selectedRequest,
                   reviewComment, leaveDialog>>

\* the check-mark button of a row shown pending (lines 519-533): the two
\* setters take effect with the next render, handleApproveRequest is the one
\* of this render and reads this render's reviewComment
QuickApprove(a, id) ==
    /\ UNCHANGED otherThanLeave
    /\ leaveDialog[a] = Null
    /\ Shown(leaveCache[a], id) = "pending"
    /\ ~ReviewPending(a)
    /\ selectedRequest' = [selectedRequest EXCEPT ![a] =
                               [id |-> id, status |-> "pending"]]
    /\ reviewComment' = [reviewComment EXCEPT ![a] = QuickApproveComment]
    /\ handleApproveRequest(a, id, reviewComment[a])
    /\ UNCHANGED <<leave_requests, leaveCache, leaveFetching, leaveDialog>>

\* Cancel of the reject dialog (lines 561-563)
RejectDialogCancel(a) ==
    /\ UNCHANGED otherThanLeave
    /\ leaveDialog[a] # Null
    /\ leaveDialog[a].kind = "reject"
    /\ reviewComment' = [reviewComment EXCEPT ![a] = <<>>]
    /\ UNCHANGED <<leave_requests, leaveCache, leaveFetching, selectedRequest,
                   leaveDialog, leaveMutations>>

\* Reject Request of the reject dialog (lines 564-570)
RejectDialogReject(a) ==
    /\ UNCHANGED otherThanLeave
    /\ leaveDialog[a] # Null
    /\ leaveDialog[a].kind = "reject"
    /\ Trim(reviewComment[a]) # <<>>
    /\ ~IsPending(a, "reject")
    /\ handleRejectRequest(a, leaveDialog[a].id)
    /\ UNCHANGED <<leave_requests, leaveCache, leaveFetching, selectedRequest,
                   reviewComment, leaveDialog>>

\* the statuses the edit dialog offers for a row shown with `status`
\* (lines 607, 623, 646)
EditOffers_any(status) == LeaveStatuses

EditOffers(status) ==
    {s \in {"approved", "rejected"} : s # status} \cup {"pending"}

\* an edit dialog that passes the comment box as it is
EditComment_noDefault(a, newStatus) == reviewComment[a]

\* the comment a button of the edit dialog passes (lines 613, 640, 655)
EditComment(a, newStatus) ==
    CASE newStatus = "approved" -> OrElse(reviewComment[a], DefaultApprovedComment)
      [] newStatus = "rejected" -> reviewComment[a]
      [] newStatus = "pending"  -> OrElse(reviewComment[a], DefaultPendingComment)

\* an edit dialog whose Reject writes whatever the comment box holds
EditRefuses_never(a, newStatus) == FALSE

\* Reject of the edit dialog returns after a toast when the comment is blank
\* (lines 628-636); the other two buttons have no such check
EditRefuses(a, newStatus) ==
    newStatus = "rejected" /\ Trim(reviewComment[a]) = <<>>

\* Approve, Reject and Reset to Pending of the edit dialog (lines 607-661)
EditStatus(a, newStatus) ==
    /\ UNCHANGED otherThanLeave
    /\ leaveDialog[a] # Null
    /\ leaveDialog[a].kind = "edit"
    /\ newStatus \in EditOffers(Shown(leaveCache[a], leaveDialog[a].id))
    /\ ~IsPending(a, "edit")
    /\ IF EditRefuses(a, newStatus)
       THEN UNCHANGED leaveMutations
       ELSE Mutate(a, "edit", leaveDialog[a].id, newStatus, EditComment(a, newStatus))
    /\ UNCHANGED <<leave_requests, leaveCache, leaveFetching, selectedRequest,
                   reviewComment, leaveDialog>>

\* a first-writer-wins backend, which the code does not have
UpdatedRow_keepsComment(m) ==
    [status           |-> m.newStatus,
     approved_by      |-> By(m.admin),
     approved_at      |-> NowISO,
     rejection_reason |->
         IF leave_requests[m.requestId].rejection_reason # Null
         THEN leave_requests[m.requestId].rejection_reason
         ELSE IF m.kind = "reject" THEN Text(m.comment) ELSE OrNull(m.comment)]

\* rejectMutation's mutationFn throws before the update (lines 135-137)
ThrowsBeforeUpdate(m) == m.kind = "reject" /\ Trim(m.comment) = <<>>

\* the row written by the update of the three mutationFns
UpdatedRow(m) ==
    [status           |-> m.newStatus,
     approved_by      |-> By(m.admin),
     approved_at      |-> NowISO,
     rejection_reason |-> IF m.kind = "reject" THEN Text(m.comment)
                          ELSE OrNull(m.comment)]

\* the update succeeds; onSuccess
LeaveMutationSucceeds(m) ==
    /\ UNCHANGED otherThanLeave
    /\ m \in leaveMutations
    /\ ~ThrowsBeforeUpdate(m)
    /\ leaveMutations' = leaveMutations \ {m}
    /\ leave_requests' = [leave_requests EXCEPT ![m.requestId] = UpdatedRow(m)]
    /\ leaveFetching' = leaveFetching \cup {m.admin}
    /\ reviewComment' = [reviewComment EXCEPT ![m.admin] = <<>>]
    /\ selectedRequest' = [selectedRequest EXCEPT ![m.admin] = Null]
    /\ UNCHANGED <<leaveCache, leaveDialog>>

\* the mutationFn throws; onError raises a toast
LeaveMutationFails(m) ==
    /\ UNCHANGED otherThanLeave
    /\ m \in leaveMutations
    /\ leaveMutations' = leaveMutations \ {m}
    /\ UNCHANGED <<leave_requests, leaveCache, leaveFetching, selectedRequest,
                   reviewComment, leaveDialog>>

LeaveNextFor(admins, comments) ==
    \/ handleSubmitLeave
    \/ \E a \in admins : LeaveRefetchInterval(a)
    \/ \E a \in admins : LeaveQueryAnswer(a)
    \/ \E a \in admins : LeaveQueryError(a)
    \/ \E a \in admins, id \in 1..MaxRequests : OpenDetails(a, id)
    \/ \E a \in admins, id \in 1..MaxRequests : OpenRejectDialog(a, id)
    \/ \E a \in admins, id \in 1..MaxRequests : OpenEditDialog(a, id)
    \/ \E a \in admins : CloseDialog(a)
    \/ \E a \in admins, text \in comments : setReviewComment(a, text)
    \/ \E a \in admins : DetailsApprove(a)
    \/ \E a \in admins : DetailsReject(a)
    \/ \E a \in admins, id \in 1..MaxRequests : QuickApprove(a, id)
    \/ \E a \in admins : RejectDialogCancel(a)
    \/ \E a \in admins : RejectDialogReject(a)
    \/ \E a \in admins, s \in LeaveStatuses : EditStatus(a, s)
    \/ \E m \in leaveMutations : LeaveMutationSucceeds(m)
    \/ \E m \in leaveMutations : LeaveMutationFails(m)

\* one admin at work
LeaveNext == LeaveNextFor({"ADM001"}, TypedComments)

\* the review of pending requests from the list alone: the quick approve
\* button and the reject dialog of a row
LeaveReviewNextFor(admins, comments) ==
    \/ handleSubmitLeave
    \/ \E a \in admins : LeaveRefetchInterval(a)
    \/ \E a \in admins : LeaveQueryAnswer(a)
    \/ \E a \in admins : LeaveQueryError(a)
    \/ \E a \in admins, id \in 1..MaxRequests : OpenRejectDialog(a, id)
    \/ \E a \in admins : CloseDialog(a)
    \/ \E a \in admins, text \in comments : setReviewComment(a, text)
    \/ \E a \in admins, id \in 1..MaxRequests : QuickApprove(a, id)
    \/ \E a \in admins : RejectDialogCancel(a)
    \/ \E a \in admins : RejectDialogReject(a)
    \/ \E m \in leaveMutations : LeaveMutationSucceeds(m)
    \/ \E m \in leaveMutations : LeaveMutationFails(m)

\* two admins reviewing, each typing one reason
LeaveReviewNext == LeaveReviewNextFor(Admins, {<<"noted">>})

\* the requests of a list on which the admin writes a note per request
MaxListed == 2

\* what the admin types about request `id`
NoteFor(id) == IF id = 1 THEN <<"note on the first">> ELSE <<"note on the second">>

\* the admin types, into the dialog that is open, a note on its request
TypeNote(a) ==
    /\ leaveDialog[a] # Null
    /\ setReviewComment(a, NoteFor(leaveDialog[a].id))

\* one admin working through a list of requests and typing notes: the
\* details dialog, the quick approve button, the reject dialog, and the edit
\* dialog with its Reject button, the one that needs typed text
LeaveNotesNext ==
    \/ SubmitLeaveUpTo(MaxListed)
    \/ LeaveQueryAnswer("ADM001")
    \/ \E id \in 1..MaxListed : OpenDetails("ADM001", id)
    \/ \E id \in 1..MaxListed : OpenRejectDialog("ADM001", id)
    \/ \E id \in 1..MaxListed : OpenEditDialog("ADM001", id)
    \/ CloseDialog("ADM001")
    \/ TypeNote("ADM001")
    \/ DetailsApprove("ADM001")
    \/ DetailsReject("ADM001")
    \/ \E id \in 1..MaxListed : QuickApprove("ADM001", id)
    \/ RejectDialogCancel("ADM001")
    \/ RejectDialogReject("ADM001")
    \/ EditStatus("ADM001", "rejected")
    \/ \E m \in leaveMutations : LeaveMutationSucceeds(m)

\* the leave pages are not mounted
LeaveIdle ==
    /\ leave_requests = <<>>
    /\ leaveCache = [a \in Admins |-> <<>>]
    /\ leaveFetching = {}
    /\ selectedRequest = [a \in Admins |-> Null]
    /\ reviewComment = [a \in Admins |-> <<>>]
    /\ leaveDialog = [a \in Admins |-> Null]
    /\ leaveMutations = {}

(***************************************************************************)
(* Tasks: AdminTasks (src/components/admin/AdminTasks.tsx) and the         *)
(* employee's EmployeeTasks (unnamed/part_003, 437-1260), every task being *)
(* assigned to the one signed-in employee.                                 *)
(***************************************************************************)
MaxTasks == 1

\* what the employee types into the completion notes
TypedNotes == {<<>>, <<"done">>}

\* the SelectItems of the status Select (lines 941-959, 1021-1039)
StatusOptions_withReview ==
    {"not_started", "in_progress", "completed", "shelved", "accepted", "rejected"}

StatusOptions == {"not_started", "in_progress", "completed", "shelved"}

\* the task cards that carry a status Select: activeTasks (lines 731-735,
\* 933) and rejectedTasks (lines 738, 1013)
HasStatusSelect(status) ==
    status \in {"not_started", "in_progress", "shelved", "rejected"}

\* the status createTaskMutation inserts (line 152)
CreatedStatus_pending == "pending"

CreatedStatus == "not_started"

\* Database['public']['Tables']['tasks']['Row']['status'] (lib/supabase.ts)
DatabaseTaskStatus == {"pending", "in_progress", "completed", "overdue"}

\* the pendingTasks figure of the dashboardStats queryFn over the rows of
\* `tasks` (AdminDashboard.tsx, 67-70)
pendingTasks(rows) ==
    Cardinality({row \in rows : row.status \in {"pending", "in_progress"}})

TaskInit ==
    /\ tasks = {}
    /\ nextTaskId = 1
    /\ employeeTasks = {}
    /\ adminTasks = {}
    /\ taskFetching = {"employee-tasks", "admin-tasks"}
    /\ selectedTask = Null
    /\ completionNotes = <<>>
    /\ taskMutations = {}

TaskMutation(page, kind, taskId, status, notes) ==
    [page |-> page, kind |-> kind, taskId |-> taskId, status |-> status,
     notes |-> notes]

TaskPending(kind) == \E m \in taskMutations : m.kind = kind

\* handleCreateTask with the form filled in: createTaskMutation.mutate
handleCreateTask ==
    /\ UNCHANGED otherThanTasks
    /\ ~TaskPending("create")
    /\ nextTaskId <= MaxTasks
    /\ taskMutations' = taskMutations \cup
           {TaskMutation("AdminTasks", "create", 0, CreatedStatus, <<>>)}
    /\ UNCHANGED <<tasks, nextTaskId, employeeTasks, adminTasks, taskFetching,
                   selectedTask, completionNotes>>

\* the trash button of a row: deleteTaskMutation.mutate(task.id)
DeleteTask(id) ==
    /\ UNCHANGED otherThanTasks
    /\ id \in adminTasks
    /\ taskMutations' = taskMutations \cup
           {TaskMutation("AdminTasks", "delete", id, "none", <<>>)}
    /\ UNCHANGED <<tasks, nextTaskId, employeeTasks, adminTasks, taskFetching,
                   selectedTask, completionNotes>>

\* handleStatusChange(task.id, value) from the Select of a task card; the
\* Select reports a value other than the one it shows
handleStatusChange(row, newStatus) ==
    /\ UNCHANGED otherThanTasks
    /\ row \in employeeTasks
    /\ HasStatusSelect(row.status)
    /\ newStatus \in StatusOptions
    /\ newStatus # row.status
    /\ selectedTask = Null
    /\ ~TaskPending("update")
    /\ IF newStatus = "completed"
       THEN /\ selectedTask' = row
            /\ UNCHANGED taskMutations
       ELSE /\ taskMutations' = taskMutations \cup
                   {TaskMutation("EmployeeTasks", "update", row.id, newStatus, <<>>)}
            /\ UNCHANGED selectedTask
    /\ UNCHANGED <<tasks, nextTaskId, employeeTasks, adminTasks, taskFetching,
                   completionNotes>>

\* the Textarea of the completion dialog
setCompletionNotes(text) ==
    /\ UNCHANGED otherThanTasks
    /\ selectedTask # Null
    /\ completionNotes # text
    /\ completionNotes' = text
    /\ UNCHANGED <<tasks, nextTaskId, employeeTasks, adminTasks, taskFetching,
                   selectedTask, taskMutations>>

\* Cancel or closing the completion dialog: setSelectedTask(null)
CancelCompleteTask ==
    /\ UNCHANGED otherThanTasks
    /\ selectedTask # Null
    /\ selectedTask' = Null
    /\ UNCHANGED <<tasks, nextTaskId, employeeTasks, adminTasks, taskFetching,
                   completionNotes, taskMutations>>

\* Mark as Completed
handleCompleteTask ==
    /\ UNCHANGED otherThanTasks
    /\ selectedTask # Null
    /\ ~TaskPending("update")
    /\ taskMutations' = taskMutations \cup
           {TaskMutation("EmployeeTasks", "update", selectedTask.id, "completed",
                         completionNotes)}
    /\ UNCHANGED <<tasks, nextTaskId, employeeTasks, adminTasks, taskFetching,
                   selectedTask, completionNotes>>

\* handleSaveReferences for the task of the references dialog (part_003,
\* 648-661): updateReferencesMutation.mutate; employee_references and
\* employee_photos are columns no handler reads
handleSaveReferences(row) ==
    /\ UNCHANGED otherThanTasks
    /\ row \in employeeTasks
    /\ ~TaskPending("references")
    /\ taskMutations' = taskMutations \cup
           {TaskMutation("EmployeeTasks", "references", row.id, row.status, <<>>)}
    /\ UNCHANGED <<tasks, nextTaskId, employeeTasks, adminTasks, taskFetching,
                   selectedTask, completionNotes>>

\* the update of updateTaskStatusMutation applied to one row (the column
\* completion_notes, written with a completion, is read by no handler)
UpdatedTask(row, m) ==
    IF row.id # m.taskId THEN row ELSE [id |-> row.id, status |-> m.status]

\* a mutationFn succeeds; onSuccess
TaskMutationSucceeds(m) ==
    /\ UNCHANGED otherThanTasks
    /\ m \in taskMutations
    /\ taskMutations' = taskMutations \ {m}
    /\ CASE m.kind = "create" ->
              /\ tasks' = tasks \cup {[id |-> nextTaskId, status |-> m.status]}
              /\ nextTaskId' = nextTaskId + 1
              /\ taskFetching' = taskFetching \cup {"admin-tasks"}
              /\ UNCHANGED <<selectedTask, completionNotes>>
         [] m.kind = "delete" ->
              /\ tasks' = {row \in tasks : row.id # m.taskId}
              /\ taskFetching' = taskFetching \cup {"admin-tasks"}
              /\ UNCHANGED <<nextTaskId, selectedTask, completionNotes>>
         [] m.kind = "update" ->
              /\ tasks' = {UpdatedTask(row, m) : row \in tasks}
              /\ taskFetching' = {"employee-tasks", "admin-tasks"}
              /\ completionNotes' = <<>>
              /\ selectedTask' = Null
              /\ UNCHANGED nextTaskId
         [] m.kind = "references" ->
              /\ taskFetching' = {"employee-tasks", "admin-tasks"}
              /\ UNCHANGED <<tasks, nextTaskId, selectedTask, completionNotes>>
    /\ UNCHANGED <<employeeTasks, adminTasks>>

\* a mutationFn throws; onError raises a toast
TaskMutationFails(m) ==
    /\ UNCHANGED otherThanTasks
    /\ m \in taskMutations
    /\ taskMutations' = taskMutations \ {m}
    /\ UNCHANGED <<tasks, nextTaskId, employeeTasks, adminTasks, taskFetching,
                   selectedTask, completionNotes>>

\* refetchInterval: 30000 of either query
TaskRefetchInterval(query) ==
    /\ UNCHANGED otherThanTasks
    /\ query \notin taskFetching
    /\ taskFetching' = taskFetching \cup {query}
    /\ UNCHANGED <<tasks, nextTaskId, employeeTasks, adminTasks, selectedTask,
                   completionNotes, taskMutations>>

\* a queryFn answers with the rows of `tasks`
TaskQueryAnswer(query) ==
    /\ UNCHANGED otherThanTasks
    /\ query \in taskFetching
    /\ taskFetching' = taskFetching \ {query}
    /\ IF query = "employee-tasks"
       THEN employeeTasks' = tasks /\ UNCHANGED adminTasks
       ELSE adminTasks' = {row.id : row \in tasks} /\ UNCHANGED employeeTasks
    /\ UNCHANGED <<tasks, nextTaskId, selectedTask, completionNotes, taskMutations>>

\* a queryFn throws: the query keeps its data
TaskQueryError(query) ==
    /\ UNCHANGED otherThanTasks
    /\ query \in taskFetching
    /\ taskFetching' = taskFetching \ {query}
    /\ UNCHANGED <<tasks, nextTaskId, employeeTasks, adminTasks, selectedTask,
                   completionNotes, taskMutations>>

TaskQueries == {"employee-tasks", "admin-tasks"}

TaskNext ==
    \/ handleCreateTask
    \/ \E id \in adminTasks : DeleteTask(id)
    \/ \E row \in employeeTasks, s \in StatusOptions : handleStatusChange(row, s)
    \/ \E text \in TypedNotes : setCompletionNotes(text)
    \/ CancelCompleteTask
    \/ handleCompleteTask
    \/ \E m \in taskMutations : TaskMutationSucceeds(m)
    \/ \E m \in taskMutations : TaskMutationFails(m)
    \/ \E query \in TaskQueries : TaskRefetchInterval(query)
    \/ \E query \in TaskQueries : TaskQueryAnswer(query)
    \/ \E query \in TaskQueries : TaskQueryError(query)

\* the task pages are not mounted
TaskIdle ==
    /\ tasks = {}
    /\ nextTaskId = 1
    /\ employeeTasks = {}
    /\ adminTasks = {}
    /\ taskFetching = {}
    /\ selectedTask = Null
    /\ completionNotes = <<>>
    /\ taskMutations = {}

(***************************************************************************)
(* AdminEmployees (unnamed/part_001, 64-760): two admins, each with the    *)
(* page open.  Rows of `employees` are (user_id, employee_id); the other   *)
(* columns are only displayed.                                             *)
(***************************************************************************)
MaxEmployees == 1

\* the employees rows of the two admins, there before the page is used
SeedEmployees ==
    {[user_id |-> 1, employee_id |-> <<"EMP", "0", "0", "1">>],
     [user_id |-> 2, employee_id |-> <<"EMP", "0", "0", "2">>]}

\* String(count): the decimal digits of a non-negative integer
RECURSIVE StringOf(_)
StringOf(n) ==
    LET digits == <<"0", "1", "2", "3", "4", "5", "6", "7", "8", "9">>
    IN  IF n < 10 THEN <<digits[n + 1]>>
        ELSE Append(StringOf(n \div 10), digits[(n % 10) + 1])

\* String.prototype.padStart with a one-character padString
RECURSIVE padStart(_, _, _)
padStart(str, targetLength, padString) ==
    IF Len(str) >= targetLength THEN str
    ELSE padStart(<<padString>> \o str, targetLength, padString)

\* Step 2 of addEmployeeMutation (lines 157-159) from employees.length
employeeIdFor(listed) == <<"EMP">> \o padStart(StringOf(listed + 1), 3, "0")

\* queryClient.invalidateQueries({ queryKey }): the matching query, mounted on
\* the page, is refetched
invalidateQueries_unmatched(fetching, key) == fetching

invalidateQueries(fetching, key) == fetching \cup {key}

EmpInit ==
    /\ employees = SeedEmployees
    /\ nextUserId = Cardinality(SeedEmployees) + 1
    /\ allEmployees = [a \in Admins |-> {}]
    /\ employeesFetching = Admins
    /\ employeeMutations = {}

EmployeePending(a, kind) ==
    \E m \in employeeMutations : m.admin = a /\ m.kind = kind

\* handleAddEmployee with a valid form: addEmployeeMutation.mutate; the
\* mutationFn reads `employees` of the render that called it
handleAddEmployee(a) ==
    /\ UNCHANGED otherThanEmployees
    /\ ~EmployeePending(a, "add")
    /\ nextUserId <= Cardinality(SeedEmployees) + MaxEmployees
    /\ employeeMutations' = employeeMutations \cup
           {[admin |-> a, kind |-> "add", step |-> "signUp",
             listed |-> Cardinality(allEmployees[a]), user_id |-> 0,
             employee_id |-> <<>>]}
    /\ UNCHANGED <<employees, nextUserId, allEmployees, employeesFetching>>

\* supabase.auth.signUp answers with a user (Step 1, lines 143-155)
SignUpSucceeds(m) ==
    /\ UNCHANGED otherThanEmployees
    /\ m \in employeeMutations
    /\ m.kind = "add"
    /\ m.step = "signUp"
    /\ nextUserId' = nextUserId + 1
    /\ employeeMutations' = (employeeMutations \ {m}) \cup
           {[m EXCEPT !.step = "insert", !.user_id = nextUserId]}
    /\ UNCHANGED <<employees, allEmployees, employeesFetching>>

\* handleDeleteEmployee of a listed row, then confirmDelete
confirmDelete(a, row) ==
    /\ UNCHANGED otherThanEmployees
    /\ row \in allEmployees[a]
    /\ ~EmployeePending(a, "delete")
    /\ employeeMutations' = employeeMutations \cup
           {[admin |-> a, kind |-> "delete", step |-> "delete", listed |-> 0,
             user_id |-> 0, employee_id |-> row.employee_id]}
    /\ UNCHANGED <<employees, nextUserId, allEmployees, employeesFetching>>

\* handleEditEmployee of a listed row, then handleUpdateEmployee
handleUpdateEmployee(a, row) ==
    /\ UNCHANGED otherThanEmployees
    /\ row \in allEmployees[a]
    /\ ~EmployeePending(a, "update")
    /\ employeeMutations' = employeeMutations \cup
           {[admin |-> a, kind |-> "update", step |-> "update", listed |-> 0,
             user_id |-> 0, employee_id |-> row.employee_id]}
    /\ UNCHANGED <<employees, nextUserId, allEmployees, employeesFetching>>

\* the last call of a mutationFn succeeds; onSuccess
EmployeeMutationSucceeds(m) ==
    /\ UNCHANGED otherThanEmployees
    /\ m \in employeeMutations
    /\ m.step # "signUp"
    /\ employeeMutations' = employeeMutations \ {m}
    /\ employees' =
           CASE m.kind = "add" ->
                    employees \cup
                        {[user_id |-> m.user_id,
                          employee_id |-> employeeIdFor(m.listed)]}
             [] m.kind = "delete" ->
                    {row \in employees : row.employee_id # m.employee_id}
             [] m.kind = "update" -> employees
    /\ employeesFetching' = invalidateQueries(employeesFetching, m.admin)
    /\ UNCHANGED <<nextUserId, allEmployees>>

\* a call of a mutationFn returns an error: it throws, onError raises a toast
EmployeeMutationFails(m) ==
    /\ UNCHANGED otherThanEmployees
    /\ m \in employeeMutations
    /\ employeeMutations' = employeeMutations \ {m}
    /\ UNCHANGED <<employees, nextUserId, allEmployees, employeesFetching>>

\* refetchInterval: 30000 (line 95)
EmployeesRefetchInterval(a) ==
    /\ UNCHANGED otherThanEmployees
    /\ a \notin employeesFetching
    /\ employeesFetching' = employeesFetching \cup {a}
    /\ UNCHANGED <<employees, nextUserId, allEmployees, employeeMutations>>

\* the queryFn of 'all-employees' answers with the rows of `employees`
AllEmployeesAnswer(a) ==
    /\ UNCHANGED otherThanEmployees
    /\ a \in employeesFetching
    /\ employeesFetching' = employeesFetching \ {a}
    /\ allEmployees' = [allEmployees EXCEPT ![a] = employees]
    /\ UNCHANGED <<employees, nextUserId, employeeMutations>>

\* the queryFn throws: the query keeps its data
AllEmployeesError(a) ==
    /\ UNCHANGED otherThanEmployees
    /\ a \in employeesFetching
    /\ employeesFetching' = employeesFetching \ {a}
    /\ UNCHANGED <<employees, nextUserId, allEmployees, employeeMutations>>

\* the page used by `adders` to add and by `editors` to delete and update
EmpNextFor(adders, editors) ==
    \/ \E a \in adders : handleAddEmployee(a)
    \/ \E m \in employeeMutations : SignUpSucceeds(m)
    \/ \E a \in editors : \E row \in allEmployees[a] : confirmDelete(a, row)
    \/ \E a \in editors : \E row \in allEmployees[a] : handleUpdateEmployee(a, row)
    \/ \E m \in employeeMutations : EmployeeMutationSucceeds(m)
    \/ \E m \in employeeMutations : EmployeeMutationFails(m)
    \/ \E a \in Admins : EmployeesRefetchInterval(a)
    \/ \E a \in Admins : AllEmployeesAnswer(a)
    \/ \E a \in Admins : AllEmployeesError(a)

EmpNext == EmpNextFor(Admins, {"ADM001"})

\* the employees page is not mounted
EmpIdle ==
    /\ employees = SeedEmployees
    /\ nextUserId = Cardinality(SeedEmployees) + 1
    /\ allEmployees = [a \in Admins |-> {}]
    /\ employeesFetching = {}
    /\ employeeMutations = {}

(***************************************************************************)
(* AdminAttendance (src/components/admin/AdminAttendance.tsx, 65-516): the *)
(* list of the selected date and the edit dialog.                          *)
(***************************************************************************)
\* the rows of the selected date, there before the page is used
SeedAttendance == {[id |-> 1, employee_id |-> OwnId, check_out_time |-> FALSE]}

AdminAttInit ==
    /\ attendance = SeedAttendance
    /\ attendanceRecords = {}
    /\ attendanceFetching = {"admin-attendance"}
    /\ editAttendance = {}

\* handleEditAttendance(record), the dialog's fields changed, handleSaveEdit:
\* editAttendanceMutation.mutate(editingRecord)
handleSaveEdit(record, checkOutTime) ==
    /\ UNCHANGED otherThanAdminAttendance
    /\ record \in attendanceRecords
    /\ editAttendance = {}
    /\ editAttendance' = {[record EXCEPT !.check_out_time = checkOutTime]}
    /\ UNCHANGED <<attendance, attendanceRecords, attendanceFetching>>

\* the update .eq('id', record.id) succeeds; onSuccess
EditAttendanceSucceeds(record) ==
    /\ UNCHANGED otherThanAdminAttendance
    /\ record \in editAttendance
    /\ editAttendance' = editAttendance \ {record}
    /\ attendance' = {IF row.id = record.id
                       THEN [row EXCEPT !.check_out_time = record.check_out_time]
                       ELSE row : row \in attendance}
    /\ attendanceFetching' = invalidateQueries(attendanceFetching, "admin-attendance")
    /\ UNCHANGED attendanceRecords

\* the update fails; onError raises a toast
EditAttendanceFails(record) ==
    /\ UNCHANGED otherThanAdminAttendance
    /\ record \in editAttendance
    /\ editAttendance' = editAttendance \ {record}
    /\ UNCHANGED <<attendance, attendanceRecords, attendanceFetching>>

\* refetchInterval: 30000 (line 101)
AdminAttendanceRefetchInterval ==
    /\ UNCHANGED otherThanAdminAttendance
    /\ attendanceFetching = {}
    /\ attendanceFetching' = {"admin-attendance"}
    /\ UNCHANGED <<attendance, attendanceRecords, editAttendance>>

\* the queryFn answers with the rows of the date, or throws (the query then
\* keeps its data)
AdminAttendanceQuerySettles(answered) ==
    /\ UNCHANGED otherThanAdminAttendance
    /\ attendanceFetching # {}
    /\ attendanceFetching' = {}
    /\ attendanceRecords' = (IF answered THEN attendance ELSE attendanceRecords)
    /\ UNCHANGED <<attendance, editAttendance>>

AdminAttNext ==
    \/ \E record \in attendanceRecords, out \in BOOLEAN : handleSaveEdit(record, out)
    \/ \E record \in editAttendance : EditAttendanceSucceeds(record)
    \/ \E record \in editAttendance : EditAttendanceFails(record)
    \/ AdminAttendanceRefetchInterval
    \/ \E answered \in BOOLEAN : AdminAttendanceQuerySettles(answered)

\* AdminAttendance is not mounted
AdminAttIdle ==
    /\ attendanceRecords = {}
    /\ attendanceFetching = {}
    /\ editAttendance = {}

(***************************************************************************)
(* AdminSignIn (src/App.tsx, 115-205): handleSubmit, one step per await.   *)
(***************************************************************************)
\* who signs in: whether signInWithPassword accepts the credentials, and the
\* employees row of that user (Null: none)
Accounts ==
    {[credentials |-> "wrong", row |-> Null],
     [credentials |-> "right", row |-> Null],
     [credentials |-> "right", row |-> [role |-> "employee"]],
     [credentials |-> "right", row |-> [role |-> "admin"]]}

\* where handleSubmit stands: the call it awaits, and the error it sets after
\* an awaited signOut
Awaiting(call, error) == [await |-> call, error |-> error]

\* the test of line 164
IsAdminRole_any(role) == TRUE

IsAdminRole(role) == role = "admin"

SignInInit ==
    /\ route = "/signin/admin"
    /\ session = Null
    /\ signInAccount = Null
    /\ signInStep = Awaiting("none", <<>>)
    /\ signInLoading = FALSE
    /\ signInError = Null
    /\ showPassword = FALSE
    /\ employeeData = Null
    /\ navigateTimer = FALSE

\* the eye button: setShowPassword(!showPassword)
ToggleShowPassword ==
    /\ UNCHANGED otherThanSignIn
    /\ route = "/signin/admin"
    /\ showPassword' = ~showPassword
    /\ UNCHANGED <<route, session, signInAccount, signInStep, signInLoading,
                   signInError, employeeData, navigateTimer>>

\* the form is submitted (the submit button is disabled while loading)
handleSubmit(account) ==
    /\ UNCHANGED otherThanSignIn
    /\ route = "/signin/admin"
    /\ ~signInLoading
    /\ signInLoading' = TRUE
    /\ signInError' = Null
    /\ signInAccount' = account
    /\ signInStep' = Awaiting("signInWithPassword", <<>>)
    /\ UNCHANGED <<route, session, showPassword, employeeData, navigateTimer>>

\* signInWithPassword answers: signInError (lines 134-143) or a user
SignInWithPasswordAnswers(refused) ==
    /\ UNCHANGED otherThanSignIn
    /\ signInStep.await = "signInWithPassword"
    /\ signInAccount.credentials = "wrong" => refused
    /\ IF refused
       THEN /\ signInError' = Text(<<"Invalid login credentials">>)
            /\ signInLoading' = FALSE
            /\ signInStep' = Awaiting("none", <<>>)
            /\ UNCHANGED session
       ELSE /\ session' = signInAccount
            /\ signInStep' = Awaiting("roleLookup", <<>>)
            /\ UNCHANGED <<signInError, signInLoading>>
    /\ UNCHANGED <<route, signInAccount, showPassword, employeeData, navigateTimer>>

\* the select of employees.role answers (lines 147-191)
RoleLookupAnswers(failed) ==
    /\ UNCHANGED otherThanSignIn
    /\ signInStep.await = "roleLookup"
    /\ LET data == IF failed THEN Null ELSE signInAccount.row
       IN  /\ employeeData' = data
           /\ IF data = Null
              THEN /\ signInStep' = Awaiting("signOut", <<"Unable to verify account. Please contact support.">>)
                   /\ UNCHANGED navigateTimer
              ELSE IF ~IsAdminRole(data.role)
              THEN /\ signInStep' = Awaiting("signOut",
                                         <<"Access Denied: This portal is for administrators only.">>)
                   /\ UNCHANGED navigateTimer
              ELSE /\ signInStep' = Awaiting("none", <<>>)
                   /\ navigateTimer' = TRUE
    /\ UNCHANGED <<route, session, signInAccount, signInLoading, signInError,
                   showPassword>>

\* an awaited call throws: the catch block (lines 192-203)
SignInThrows ==
    /\ UNCHANGED otherThanSignIn
    /\ signInStep.await \in {"signInWithPassword", "roleLookup"}
    /\ signInStep' = Awaiting("signOut", <<"An unexpected error occurred">>)
    /\ UNCHANGED <<route, session, signInAccount, signInLoading, signInError,
                   showPassword, employeeData, navigateTimer>>

\* supabase.auth.signOut() has ended the session; setError, setLoading(false)
SignOutSettles ==
    /\ UNCHANGED otherThanSignIn
    /\ signInStep.await = "signOut"
    /\ session' = Null
    /\ signInError' = Text(signInStep.error)
    /\ signInLoading' = FALSE
    /\ signInStep' = Awaiting("none", <<>>)
    /\ UNCHANGED <<route, signInAccount, showPassword, employeeData, navigateTimer>>

\* setTimeout(() => navigate('/', { replace: true }), 100) fires
NavigateTimerFires ==
    /\ UNCHANGED otherThanSignIn
    /\ navigateTimer
    /\ navigateTimer' = FALSE
    /\ route' = "/"
    /\ UNCHANGED <<session, signInAccount, signInStep, signInLoading,
                   signInError, showPassword, employeeData>>

SignInNext ==
    \/ ToggleShowPassword
    \/ \E account \in Accounts : handleSubmit(account)
    \/ \E refused \in BOOLEAN : SignInWithPasswordAnswers(refused)
    \/ \E failed \in BOOLEAN : RoleLookupAnswers(failed)
    \/ SignInThrows
    \/ SignOutSettles
    \/ NavigateTimerFires

\* AdminSignIn is not mounted
SignInIdle ==
    /\ route = "/"
    /\ session = Null
    /\ signInAccount = Null
    /\ signInStep = Awaiting("none", <<>>)
    /\ signInLoading = FALSE
    /\ signInError = Null
    /\ showPassword = FALSE
    /\ employeeData = Null
    /\ navigateTimer = FALSE

(***************************************************************************)
(* Specifications: one per page, the other pages idle.                     *)
(***************************************************************************)
\* the employee's attendance page
Init ==
    /\ AttInit /\ GeoIdle /\ LeaveIdle /\ TaskIdle /\ EmpIdle /\ SignInIdle /\ AdminAttIdle
    /\ currentPage = "dashboard"
Spec == Init /\ [][AttNext]_vars

\* callers of calculateDistance and isWithinOfficeRange
InitGeo ==
    /\ GeoInit /\ AttIdle /\ LeaveIdle /\ TaskIdle /\ EmpIdle /\ SignInIdle /\ AdminAttIdle
    /\ currentPage = "dashboard"
SpecGeo == InitGeo /\ [][GeoNext]_vars

\* the leave form and the admins' leave-request page
InitLeave ==
    /\ LeaveInit /\ GeoIdle /\ AttIdle /\ TaskIdle /\ EmpIdle /\ SignInIdle /\ AdminAttIdle
    /\ currentPage = "leave"
SpecLeave == InitLeave /\ [][LeaveNext]_vars

\* two admins reviewing pending leave requests
SpecLeaveReview == InitLeave /\ [][LeaveReviewNext]_vars

\* one admin reviewing a list of requests and typing notes
SpecLeaveNotes == InitLeave /\ [][LeaveNotesNext]_vars

\* the admin's and the employee's task pages
InitTasks ==
    /\ TaskInit /\ GeoIdle /\ AttIdle /\ LeaveIdle /\ EmpIdle /\ SignInIdle /\ AdminAttIdle
    /\ currentPage = "tasks"
SpecTasks == InitTasks /\ [][TaskNext]_vars

\* the admins' employees page
InitEmployees ==
    /\ EmpInit /\ GeoIdle /\ AttIdle /\ LeaveIdle /\ TaskIdle /\ SignInIdle /\ AdminAttIdle
    /\ currentPage = "employees"
SpecEmployees == InitEmployees /\ [][EmpNext]_vars

\* the admin sign-in page
InitSignIn ==
    /\ SignInInit /\ GeoIdle /\ AttIdle /\ LeaveIdle /\ TaskIdle /\ EmpIdle /\ AdminAttIdle
    /\ currentPage = "dashboard"
SpecSignIn == InitSignIn /\ [][SignInNext]_vars

\* the admin's attendance page
InitAdminAttendance ==
    /\ AdminAttInit /\ AttPageIdle /\ GeoIdle /\ LeaveIdle /\ TaskIdle /\ EmpIdle /\ SignInIdle
    /\ currentPage = "attendance"

\* one admin on one of the pages that write (leave requests, tasks with the
\* employee's task page, employees, attendance); every query that is fetching
\* settles
InitWrites == InitLeave \/ InitTasks \/ InitEmployees \/ InitAdminAttendance

WritesNext ==
    \/ currentPage = "leave" /\ LeaveNextFor({"ADM001"}, {<<"noted">>})
    \/ currentPage = "tasks" /\ TaskNext
    \/ currentPage = "tasks" /\ \E row \in employeeTasks : handleSaveReferences(row)
    \/ currentPage = "employees" /\ EmpNextFor({"ADM001"}, {"ADM001"})
    \/ currentPage = "attendance" /\ AdminAttNext

QueriesSettle ==
    /\ \A a \in Admins : WF_vars(LeaveQueryAnswer(a) \/ LeaveQueryError(a))
    /\ \A query \in TaskQueries :
           WF_vars(TaskQueryAnswer(query) \/ TaskQueryError(query))
    /\ \A a \in Admins : WF_vars(AllEmployeesAnswer(a) \/ AllEmployeesError(a))
    /\ WF_vars(\E answered \in BOOLEAN : AdminAttendanceQuerySettles(answered))

SpecWrites == InitWrites /\ [][WritesNext]_vars /\ QueriesSettle

(***************************************************************************)
(* Claims about the attendance page (checked under Spec).                  *)
(***************************************************************************)
InRange(point) == isWithinOfficeRange(point.lat, point.lng).isWithinRange

\* C1: for an employee flagged in-office, handleMarkAttendance issues an
\* attendance insert or check-out update only if isWithinOfficeRange judges
\* the coordinates being written to be within allowedRadius of the office.
C1_WritesOnlyInRange ==
    \A w \in markInFlight :
        MustBeInRange(w.employee) => InRange(w.location)

\* C2: for an employee whose location flag is not in-office, the stored range
\* verdict is always within-range, whatever the device coordinates, and
\* handleMarkAttendance never answers with the distance message.
C2_RemoteAlwaysPasses ==
    ~MustBeInRange(profile) =>
        /\ locationCheck \in {Null, [isWithinRange |-> TRUE, distance |-> 0]}
        /\ \A d \in 0..(2 * allowedRadius) : message # MsgTooFar(d)

\* a remote or field employee outside the radius has a write under way
C2_Witness ==
    /\ employee # Null
    /\ employee.location \in {"remote", "field"}
    /\ locationCheck # Null
    /\ \E w \in markInFlight :
          w.employee = employee /\ w.location = OutsidePoint

IdChecksPass(view) ==
    /\ Trim(view.idToUse) # <<>>
    /\ view.employee # Null => Trim(view.idToUse) = view.employee.employee_id

C8_DecisionsAreTerminal ==
    [][\A i \in DOMAIN leave_requests :
          leave_requests'[i].status # leave_requests[i].status =>
              /\ leave_requests[i].status = "pending"
              /\ leave_requests'[i].status \in {"approved", "rejected"}]_vars

\* the statuses admin `a` has on screen for request `id`: the row of the list
\* and, when it is the selected request, the stored row object
ShownTo(a, id) ==
    {Shown(leaveCache[a], id)} \cup
    (IF selectedRequest[a] # Null /\ selectedRequest[a].id = id
     THEN {selectedRequest[a].status} ELSE {})

\* C8 as amended: a request is created pending and its status stays within
\* pending, approved, rejected; approveMutation and rejectMutation are issued
\* only for a request the admin's page shows as pending; editStatusMutation
\* is issued only for a request shown as approved or rejected and moves it to
\* the other decision or back to pending, never to the status shown.
C8_StatusChanges ==
    /\ [](\A i \in DOMAIN leave_requests :
             leave_requests[i].status \in {"pending", "approved", "rejected"})
    /\ [][/\ \A i \in DOMAIN leave_requests' \ DOMAIN leave_requests :
                leave_requests'[i].status = "pending"
          /\ \A m \in leaveMutations' \ leaveMutations :
                /\ m.kind = "approve" =>
                      m.newStatus = "approved" /\ "pending" \in ShownTo(m.admin, m.requestId)
                /\ m.kind = "reject" =>
                      m.newStatus = "rejected" /\ "pending" \in ShownTo(m.admin, m.requestId)
                /\ m.kind = "edit" =>
                      /\ Shown(leaveCache[m.admin], m.requestId) \in {"approved", "rejected"}
                      /\ m.newStatus \in {"pending", "approved", "rejected"}
                      /\ m.newStatus # Shown(leaveCache[m.admin], m.requestId)]_vars

\* a decided request has been reset to pending by the edit dialog
C8_Witness ==
    \E i \in DOMAIN leave_requests :
        /\ leave_requests[i].status = "pending"
        /\ leave_requests[i].approved_by # Null
        /\ leave_requests[i].rejection_reason = Text(DefaultPendingComment)

(***************************************************************************)
(* Claims about tasks (checked under SpecTasks).                           *)
(***************************************************************************)
TaskIds(rows) == {row.id : row \in rows}

\* the steps of the chain not_started -> in_progress -> completed ->
\* accepted | rejected
ChainSuccessors(status) ==
    CASE status = "not_started" -> {"in_progress"}
      [] status = "in_progress" -> {"completed"}
      [] status = "completed"   -> {"accepted", "rejected"}
      [] OTHER                  -> {}

\* C9 as claimed: a task is created as not_started and its status only
\* advances along not_started -> in_progress -> completed -> accepted or
\* rejected, no operation skipping a step or moving a task backwards.
C9_ChainOnly ==
    [][\A new \in tasks' :
          /\ new.id \notin TaskIds(tasks) => new.status = "not_started"
          /\ \A old \in tasks :
                (old.id = new.id /\ old.status # new.status) =>
                    new.status \in ChainSuccessors(old.status)]_vars

\* the status the employee's page shows for the task a mutation is about:
\* the task of the completion dialog, or the card whose Select was used
ShownTaskStatus(m) ==
    IF m.status = "completed" THEN {selectedTask.status}
    ELSE {row.status : row \in {r \in employeeTasks : r.id = m.taskId}}

\* C9 as amended: a task is created as not_started; the employee sets a task
\* shown as not_started, in_progress, shelved or rejected to any other of
\* not_started, in_progress, completed, shelved (completed through the
\* completion dialog), backwards and skipping included; no operation sets
\* accepted or rejected, so a stored status is always one of those four.
C9_FreeSelect ==
    /\ [](\A row \in tasks :
             row.status \in {"not_started", "in_progress", "completed", "shelved"})
    /\ [][/\ \A new \in tasks' :
                new.id \notin TaskIds(tasks) => new.status = "not_started"
          /\ \A m \in taskMutations' \ taskMutations :
                m.kind = "update" =>
                    /\ m.status \in {"not_started", "in_progress", "completed", "shelved"}
                    /\ \A shown \in ShownTaskStatus(m) :
                          /\ shown \in {"not_started", "in_progress", "shelved", "rejected"}
                          /\ shown # m.status]_vars

\* a task has moved backwards: it is stored as not_started while the
\* employee's list still shows it in_progress
C9_Witness ==
    \E row \in tasks, shown \in employeeTasks :
        /\ row.id = shown.id
        /\ row.status = "not_started"
        /\ shown.status = "in_progress"

\* the admin page can, in this state, issue a mutation that sets the task
\* to `status`
AdminCanSet(id, status) ==
    ENABLED (/\ TaskNext
             /\ \E m \in taskMutations' \ taskMutations :
                   /\ m.page = "AdminTasks"
                   /\ m.taskId = id
                   /\ m.status = status)

\* C10 as claimed: for every task in status completed there is an admin
\* operation that sets it to accepted and one that sets it to rejected.
C10_AdminCanReview ==
    \A row \in tasks :
        row.status = "completed" =>
            AdminCanSet(row.id, "accepted") /\ AdminCanSet(row.id, "rejected")

(***************************************************************************)
(* Claims about concurrent reviews (checked under SpecLeaveReview).        *)
(***************************************************************************)

\* C11: when two admins act on the same request (one approves, the other
\* rejects), each update can be applied whatever the row holds by then, and
\* a landed update leaves in the row the status, approver and comment of
\* that write alone; the admin whose write lands goes through onSuccess (the
\* comment and the selection are reset and the list is refetched), with no
\* branch for a conflict.
C11_LastWriteWins ==
    /\ [](\A m \in leaveMutations :
             ~ThrowsBeforeUpdate(m) => ENABLED LeaveMutationSucceeds(m))
    /\ [][\A m \in leaveMutations \ leaveMutations' :
             leave_requests' # leave_requests =>
                 /\ leave_requests'[m.requestId] =
                        [status           |-> m.newStatus,
                         approved_by      |-> [employee_id |-> m.admin],
                         approved_at      |-> NowISO,
                         rejection_reason |->
                             IF m.kind = "approve" /\ m.comment = <<>>
                             THEN Null ELSE [text |-> m.comment]]
                 /\ \A i \in DOMAIN leave_requests \ {m.requestId} :
                        leave_requests'[i] = leave_requests[i]
                 /\ selectedRequest'[m.admin] = Null
                 /\ reviewComment'[m.admin] = <<>>
                 /\ m.admin \in leaveFetching']_vars

\* ADM001 has seen the request approved; the reject of ADM002, whose list
\* still shows it pending, has landed since and is all the row holds
C11_Witness ==
    /\ Len(leave_requests) = 1
    /\ leave_requests[1] = [status           |-> "rejected",
                            approved_by      |-> By("ADM002"),
                            approved_at      |-> NowISO,
                            rejection_reason |-> Text(<<"noted">>)]
    /\ leaveCache["ADM001"] = <<"approved">>
    /\ leaveCache["ADM002"] = <<"pending">>

(***************************************************************************)
(* Claims about failures on the attendance page (checked under Spec).      *)
(***************************************************************************)

\* C12: every failed backend call of the attendance page, the attendance
\* write and the lookup of today's record, leaves an error message on the
\* page.
C12_FailuresAreShown ==
    [][((\E w \in markInFlight : MarkAttendanceFails(w))
            \/ (\E id \in lookups : CheckTodayAttendanceError(id)))
        => (message' # Null /\ message'.type = "error")]_vars

\* C16: every attendance row inserted by handleMarkAttendance carries the
\* employee_id of the signed-in employee; a manual entry or a QR scan naming
\* any other ID is rejected and causes no write.
C16_OwnIdOnly ==
    \A row \in attendance : row.employee_id = profile.employee_id

\* a step in which handleMarkAttendance runs
MarkAttempt ==
    \/ \E text \in TypedIds : ClickMarkAttendance(text)
    \/ \E view \in qrTimers : QrTimerFires(view)

\* C17: within one session the writes follow check-in then check-out: with
\* no record for today the action inserts one row (checked in, not out); with
\* a record that has no check_out_time it updates only that row's check-out;
\* once check_out_time is set, every further attempt writes nothing.  (The
\* text reported by such an attempt is left out: an attempt stopped by an
\* earlier check of the handler reports that check's text.)
C17_CheckInThenOut ==
    [][/\ MarkAttempt =>
            /\ \A w \in markInFlight' \ markInFlight :
                   /\ todayAttendance = Null => w.kind = "insert"
                   /\ todayAttendance # Null =>
                          /\ w.kind = "update"
                          /\ w.todayAttendance.id = todayAttendance.id
            /\ CheckedOut(todayAttendance) =>
                   /\ markInFlight' = markInFlight
       /\ \A w \in markInFlight :
            MarkAttendanceSucceeds(w) =>
                IF w.kind = "insert"
                THEN \E row \in attendance' \ attendance :
                        /\ attendance' = attendance \cup {row}
                        /\ ~row.check_out_time
                ELSE /\ {row.id : row \in attendance'} = {row.id : row \in attendance}
                     /\ \A row \in attendance :
                            row.id # w.todayAttendance.id => row \in attendance'
                     /\ \A row \in attendance' :
                            row.id = w.todayAttendance.id => row.check_out_time]_vars

\* C18: a check-in insert is issued only when the lookup of today's record
\* has completed and found no record, so the client never inserts a second
\* attendance row for an employee and date that already has one; also for the
\* call scheduled 500 ms after a QR scan, when the scan happens while the
\* lookup is running or after the lookup failed.
C18_OneRowPerDay ==
    \A r1 \in attendance : \A r2 \in attendance :
        r1.employee_id = r2.employee_id => r1 = r2

\* C19: if the attendance insert or update fails, todayAttendance is left
\* unchanged, the message 'Failed to mark attendance. Please try again.' is
\* shown, loading returns to false and no retry is issued (nothing is written
\* and no request is in flight in place of the failed one).
C19_FailedWrite ==
    [][\A w \in markInFlight :
          MarkAttendanceFails(w) =>
              /\ todayAttendance' = todayAttendance
              /\ message' = [type |-> "error",
                             text |-> <<"Failed to mark attendance. Please try again.">>]
              /\ loading' = FALSE
              /\ markInFlight' = markInFlight \ {w}
              /\ qrTimers' = qrTimers
              /\ attendance' = attendance]_vars

\* a check-out has failed: the record is still the one without check_out_time
C19_Witness ==
    /\ message = [type |-> "error",
                  text |-> <<"Failed to mark attendance. Please try again.">>]
    /\ ~loading
    /\ markInFlight = {}
    /\ todayAttendance # Null
    /\ ~todayAttendance.check_out_time
    /\ todayAttendance \in attendance

(***************************************************************************)
(* Claims about the dashboard's task figure (checked under SpecTasks).     *)
(***************************************************************************)
\* C15: the admin create action writes 'not_started', a status that the
\* database type and the dashboard's pending-task count do not know, so a task
\* newly created through AdminTasks is not counted in the dashboard's
\* pendingTasks figure.
C15_NewTaskNotCounted ==
    [][\A m \in taskMutations :
          (m.kind = "create" /\ TaskMutationSucceeds(m)) =>
              /\ \E row \in tasks' \ tasks :
                     /\ tasks' = tasks \cup {row}
                     /\ row.status = "not_started"
                     /\ row.status \notin DatabaseTaskStatus
              /\ pendingTasks(tasks') = pendingTasks(tasks)]_vars

\* the admin's list shows the created task, the figure counts no task
C15_Witness ==
    /\ \E row \in tasks : row.status = "not_started" /\ row.id \in adminTasks
    /\ pendingTasks(tasks) = 0

(***************************************************************************)
(* Claims about writes and the lists they invalidate (under SpecWrites).   *)
(***************************************************************************)
\* the query of the list shown on the page of a task mutation
ListOf(m) == IF m.page = "AdminTasks" THEN "admin-tasks" ELSE "employee-tasks"

\* every successful write mutation starts a refetch of its page's list
C13_InvalidatesList ==
    [][/\ \A m \in leaveMutations :
            LeaveMutationSucceeds(m) => m.admin \in leaveFetching'
       /\ \A m \in taskMutations :
            TaskMutationSucceeds(m) => ListOf(m) \in taskFetching'
       /\ \A m \in employeeMutations :
            EmployeeMutationSucceeds(m) => m.admin \in employeesFetching'
       /\ \A record \in editAttendance :
            EditAttendanceSucceeds(record) =>
                "admin-attendance" \in attendanceFetching']_vars

C20_EmployeeIdsDiffer ==
    \A r1 \in employees : \A r2 \in employees :
        r1.employee_id = r2.employee_id => r1 = r2

\* ---- the stored leave decisions ----

\* C22: in every reachable state a leave request with status 'rejected' has
\* a rejection_reason that is not blank: neither null, nor empty, nor only
\* whitespace.
C22_RejectedHasReason ==
    \A i \in DOMAIN leave_requests :
        leave_requests[i].status = "rejected" =>
            /\ leave_requests[i].rejection_reason # Null
            /\ Trim(leave_requests[i].rejection_reason.text) # <<>>

\* a request has been rejected
C22_Witness ==
    \E i \in DOMAIN leave_requests : leave_requests[i].status = "rejected"

\* C23: the one-click approve button of a pending request stores the comment
\* 'Leave request approved.' with the approval: when its approveMutation
\* succeeds the request has status 'approved' and that rejection_reason.  In
\* the review from the list the quick approve button is the only caller of
\* approveMutation.
C23_QuickApproveComment ==
    [][\A m \in leaveMutations :
          (m.kind = "approve" /\ LeaveMutationSucceeds(m)) =>
              /\ leave_requests'[m.requestId].status = "approved"
              /\ leave_requests'[m.requestId].rejection_reason
                     = Text(QuickApproveComment)]_vars

\* C24: the comment stored with a leave decision is text the admin entered
\* for that same request: a note typed into the review, reject or edit dialog
\* of one request is never written to a different request.
C24_CommentOfSameRequest ==
    \A i \in DOMAIN leave_requests : \A j \in 1..MaxListed :
        i # j => leave_requests[i].rejection_reason # Text(NoteFor(j))

\* what the employee's request history shows under a request: the line
\* '{Approved | Reviewed} by ...' needs approved_at, the box 'Admin
\* Comments:' needs rejection_reason (ViewReport.tsx 1111-1127)
ShowsReviewedBy(row) == row.approved_at # Null
ShowsAdminComments(row) == row.rejection_reason # Null

\* C25 as stated: in every reachable state a leave request whose status is
\* 'pending' has no approver, no decision timestamp and no review comment, so
\* the employee's list never shows 'Reviewed by ...' on a pending request.
C25_PendingIsUnreviewed ==
    \A i \in DOMAIN leave_requests :
        leave_requests[i].status = "pending" =>
            /\ leave_requests[i].approved_by = Null
            /\ leave_requests[i].approved_at = Null
            /\ leave_requests[i].rejection_reason = Null
            /\ ~ShowsReviewedBy(leave_requests[i])

\* C25, amended: a pending leave request either has never been decided, and
\* then approved_by, approved_at and rejection_reason are all null, or it was
\* reset to pending in the edit dialog, and then it carries the admin who
\* reset it, the time of the reset and a comment (the typed one, or 'Status
\* reset to pending'), and the employee's list shows 'Reviewed by ...' and
\* the comment on it.
C25_PendingUnreviewedOrReset ==
    \A i \in DOMAIN leave_requests :
        leave_requests[i].status = "pending" =>
            \/ /\ leave_requests[i].approved_by = Null
               /\ leave_requests[i].approved_at = Null
               /\ leave_requests[i].rejection_reason = Null
            \/ /\ leave_requests[i].approved_by \in {By(a) : a \in Admins}
               /\ leave_requests[i].approved_at = NowISO
               /\ leave_requests[i].rejection_reason # Null
               /\ leave_requests[i].rejection_reason.text # <<>>
               /\ ShowsReviewedBy(leave_requests[i])
               /\ ShowsAdminComments(leave_requests[i])

\* a request reset to pending with an empty comment box
C25_Witness ==
    \E i \in DOMAIN leave_requests :
        /\ leave_requests[i].status = "pending"
        /\ leave_requests[i].approved_by # Null
        /\ leave_requests[i].rejection_reason = Text(DefaultPendingComment)

\* ---- adding an employee ----

\* the auth users that exist: the seeded ones and those signUp has created
AuthUsers == 1 .. (nextUserId - 1)

\* C21: adding an employee is all-or-nothing: when addEmployeeMutation
\* finishes, an auth account made for it exists if and only if the matching
\* employees row exists; an insert that fails after the sign-up succeeded
\* leaves no auth account behind.
C21_AllOrNothing ==
    [][\A m \in employeeMutations \ employeeMutations' :
          (m.kind = "add" /\ m.step = "insert") =>
              (m.user_id \in AuthUsers' <=>
                   \E row \in employees' : row.user_id = m.user_id)]_vars

(***************************************************************************)
(* Claims about the admin sign-in (checked under SpecSignIn).              *)
(***************************************************************************)
\* handleSubmit has run to its end
SubmitFinished == signInAccount # Null /\ signInStep.await = "none"

====
